---- MODULE Spec2Model ----
(***************************************************************************)
(* State-machine model of Markov_Models/msm/base.py (BaseMicroMSM and      *)
(* BaseMacroMSM) together with the construction-time configuration of      *)
(* Markov_Models/base.py (BaseModel).                                      *)
(*                                                                         *)
(* A Python attribute that may not exist yet (hasattr) is an optional      *)
(* value: <<>> when the attribute is absent, <<v>> when it holds v.  An    *)
(* optional argument is None as <<>> and a value v as <<v>>.               *)
(*                                                                         *)
(* The numerical collaborators (clustering, classification, count and      *)
(* transition matrix estimation, coarse graining) are represented by the   *)
(* symbolic value they return, which records what they were called with.   *)
(* Any of them may raise; which one does in a given call is the input      *)
(* `fail` of the calling action.                                           *)
(***************************************************************************)
EXTENDS Integers, Sequences, FiniteSets, TLC

\* ------------------------------------------------------------------ bounds
MaxLag == 2
MaxFailures == 1
MaxCentroid == 1
SmallStates == 3

\* ------------------------------------------------------- program constants
SparseThreshold == 4000
MinSparseMacro == 4

\* -------------------------------------------------------------- input sets
Lags == 1..MaxLag
CentroidSets == 1..MaxCentroid
StateCounts == {SmallStates, SparseThreshold + 1}
MacroCounts == {SmallStates - 1, SmallStates, SparseThreshold}

None == <<>>
Some(v) == <<v>>
Opt(S) == {None} \cup {Some(v) : v \in S}

\* ------------------------------------------------------------ method names
\* the names with capital letters that a caller may pass: the defaults
\* written in the source and other spellings in mixed case
MixedCaseNames == {"KNeighborsClassifier", "GaussianNB", "KMeans", "PCCA", "Hpca", "GMM"}

\* str.lower() on the names above; the other names are in lower case already
LowerOf ==
    [name \in MixedCaseNames |->
        CASE name = "KNeighborsClassifier" -> "kneighborsclassifier"
          [] name = "GaussianNB" -> "gaussiannb"
          [] name = "KMeans" -> "kmeans"
          [] name = "PCCA" -> "pcca"
          [] name = "Hpca" -> "hpca"
          [] name = "GMM" -> "gmm"]

Lower(name) == IF name \in MixedCaseNames THEN LowerOf[name] ELSE name

MicroMethodArgs == {None, Some("GaussianNB"), Some("bogus")}
MacroMethodArgs == {"PCCA", "Hpca", "GMM", "bogus"}

\* --------------------------------------------------- collaborators' values
\* number of rows of caller-supplied centroid array c (centroids.shape[0])
Rows(c) == c + 3

\* _cluster._KMeans / _MiniBatchKMeans / _KMedoids: (centroids, labels)
ClusterCentroids(meth, n) == [by |-> meth, id |-> 0, n |-> n]
ClusterLabels(meth, n) == [by |-> meth, n |-> n, cen |-> 0]

\* caller-supplied centroid array c
GivenCentroids(c) == [by |-> "caller", id |-> c, n |-> Rows(c)]

\* _classifier._KNeighborsClassifier / _GaussianNB against self.centroids
ClassifyLabels(meth, cen) == [by |-> meth, n |-> cen.n, cen |-> cen.id]

\* analysis.count_matrix(labels, lag=lag, sparse=sparse)
CountMatrix(labels, lag, sparse) ==
    [by |-> labels.by, n |-> labels.n, cen |-> labels.cen, lag |-> lag, sparse |-> sparse]

\* analysis.transition_matrix.{sym_T_estimator, rev_T_estimator, nonrev_T_matrix}
TransitionMatrix(est, C) ==
    [est |-> est, by |-> C.by, n |-> C.n, cen |-> C.cen, lag |-> C.lag, sparse |-> C.sparse]

\* ------------------------------------------------------------------- state
VARIABLES
    base,     \* BaseModel: flags, construction lag, n_microstates, n_macrostates
    micro,    \* BaseMicroMSM attributes
    macro,    \* BaseMacroMSM attributes (built = FALSE before __init__)
    result,   \* the last call: operation, arguments, error raised, value returned
    calls,    \* collaborators invoked by the last call, in order
    hist      \* whether some fit call of each model has completed without error,
              \* and how many times a collaborator has raised

vars == <<base, micro, macro, result, calls, hist>>

NoArgs == [N |-> None, centroids |-> None, lag |-> None, method |-> None,
           other |-> FALSE, fail |-> "none"]

Result(op, args, err, ret) == [op |-> op, args |-> args, err |-> err, ret |-> ret]

\* BaseModel.__init__ followed by BaseMicroMSM.__init__
BaseInit(db, rev, sparse, lag) ==
    [is_force_db |-> db, is_reversible |-> rev, is_sparse |-> sparse, lag |-> lag,
     n_microstates |-> None, n_macrostates |-> None]

MicroInit(b) ==
    [is_force_db |-> b.is_force_db, is_reversible |-> b.is_reversible,
     is_sparse |-> b.is_sparse, lag |-> b.lag,
     centroids |-> None, N |-> None, labels |-> None, C |-> None, T |-> None]

\* before BaseMacroMSM.__init__ has run (no attribute is read in this state)
MacroUnbuilt ==
    [built |-> FALSE, is_force_db |-> FALSE, is_reversible |-> FALSE,
     is_sparse |-> FALSE, lag |-> 0, N |-> None, labels |-> None,
     C |-> None, T |-> None]

Init ==
    /\ \E db \in BOOLEAN, rev \in BOOLEAN, sparse \in BOOLEAN, lag \in Lags :
          /\ base = BaseInit(db, rev, sparse, lag)
          /\ micro = MicroInit(BaseInit(db, rev, sparse, lag))
    /\ macro = MacroUnbuilt
    /\ result = Result("init", NoArgs, "none", "None")
    /\ calls = <<>>
    /\ hist = [micro_ok |-> FALSE, macro_ok |-> FALSE, failures |-> 0]

\* ------------------------------------------------------------ the estimator
\* variant: force_detailed_balance is tested before reversible
EstimatorName_DbFirst(m) ==
    IF m.is_force_db
    THEN "sym_T_estimator"
    ELSE IF m.is_reversible THEN "rev_T_estimator" ELSE "nonrev_T_matrix"

\* which of the three estimators the two flags select
EstimatorName(m) ==
    IF m.is_reversible
    THEN IF m.is_force_db THEN "sym_T_estimator" ELSE "rev_T_estimator"
    ELSE "nonrev_T_matrix"

\* An outcome of a (partial) run of a method body: the object states it left,
\* the error it raised ("none" if it ran to the end) and the collaborators it
\* invoked.
Outcome(m, b, err, cs) == [m |-> m, b |-> b, err |-> err, calls |-> cs]

\* count matrix, then transition matrix, from self.labels at `lag`
EstimateChain(o, lag, fail) ==
    IF o.m.labels = None
    THEN Outcome(o.m, o.b, "missing_attr", o.calls)
    ELSE LET cs1 == Append(o.calls, "count_matrix")
             C   == CountMatrix(o.m.labels[1], lag, o.m.is_sparse)
             m1  == [o.m EXCEPT !.C = Some(C)]
             est == EstimatorName(o.m)
             cs2 == Append(cs1, est)
             m2  == [m1 EXCEPT !.T = Some(TransitionMatrix(est, C))]
         IN IF fail = "count" THEN Outcome(o.m, o.b, "collaborator", cs1)
            ELSE IF fail = "estimator" THEN Outcome(m1, o.b, "collaborator", cs2)
            ELSE Outcome(m2, o.b, "none", cs2)

\* A collaborator raises only when it is invoked, and at most MaxFailures
\* times in a behaviour.
MayFail(fail, err) ==
    fail # "none" => (err = "collaborator" /\ hist.failures < MaxFailures)

FailCount(err) == IF err = "collaborator" THEN 1 ELSE 0

\* ------------------------------------------------------- BaseMicroMSM.fit
\* centroids given: label the data with a classifier
MicroFitClassify(m, b, c, method, fail) ==
    LET meth == Lower(IF method = None THEN "KNeighborsClassifier" ELSE method[1])
        cen  == GivenCentroids(c)
        m1   == [m EXCEPT !.centroids = Some(cen), !.N = Some(Rows(c))]
        b1   == [b EXCEPT !.n_microstates = Some(Rows(c))]
    IN IF meth \in {"kneighborsclassifier", "gaussiannb"}
       THEN IF fail = "labeler"
            THEN Outcome(m1, b1, "collaborator", <<meth>>)
            ELSE Outcome([m1 EXCEPT !.labels = Some(ClassifyLabels(meth, cen))],
                         b1, "none", <<meth>>)
       ELSE Outcome(m1, b1, "none", <<>>)

\* state count given: cluster the data
MicroFitCluster(m, b, N, method, fail) ==
    LET meth == Lower(IF method = None THEN "KMeans" ELSE method[1])
        m1   == [m EXCEPT !.N = Some(N)]
        b1   == [b EXCEPT !.n_microstates = Some(N)]
    IN IF meth \in {"kmeans", "minibatchkmeans", "kmedoids"}
       THEN IF fail = "labeler"
            THEN Outcome(m1, b1, "collaborator", <<meth>>)
            ELSE Outcome([m1 EXCEPT !.centroids = Some(ClusterCentroids(meth, N)),
                                    !.labels = Some(ClusterLabels(meth, N))],
                         b1, "none", <<meth>>)
       ELSE Outcome(m1, b1, "none", <<>>)

\* variant: the lag argument is stored before the arguments are validated
MicroFitOutcome_LagFirst(m, b, N, centroids, lag, method, fail) ==
    LET m0 == IF lag = None THEN m ELSE [m EXCEPT !.lag = lag[1]]
    IN IF N = None /\ centroids = None
       THEN Outcome(m0, b, "neither", <<>>)
       ELSE LET o1 == IF N = None
                      THEN MicroFitClassify(m0, b, centroids[1], method, fail)
                      ELSE MicroFitCluster(m0, b, N[1], method, fail)
            IN IF o1.err # "none" THEN o1 ELSE EstimateChain(o1, m0.lag, fail)

MicroFitOutcome(m, b, N, centroids, lag, method, fail) ==
    IF N = None /\ centroids = None
    THEN Outcome(m, b, "neither", <<>>)
    ELSE LET o1 == IF N = None
                   THEN MicroFitClassify(m, b, centroids[1], method, fail)
                   ELSE MicroFitCluster(m, b, N[1], method, fail)
             useLag == IF lag = None THEN o1.m.lag ELSE lag[1]
             o2 == IF lag = None THEN o1
                   ELSE [o1 EXCEPT !.m = [o1.m EXCEPT !.lag = lag[1]]]
         IN IF o1.err # "none" THEN o1 ELSE EstimateChain(o2, useLag, fail)

MicroFit(N, centroids, lag, method, fail) ==
    /\ ~(N # None /\ centroids # None)
    /\ \E o \in {MicroFitOutcome(micro, base, N, centroids, lag, method, fail)} :
       /\ MayFail(fail, o.err)
       /\ micro' = o.m
       /\ base' = o.b
       /\ calls' = o.calls
       /\ result' = Result("micro_fit",
                           [NoArgs EXCEPT !.N = N, !.centroids = centroids, !.lag = lag,
                                          !.method = method, !.fail = fail],
                           o.err, "None")
       /\ hist' = [hist EXCEPT !.micro_ok = @ \/ o.err = "none",
                                !.failures = @ + FailCount(o.err)]
       /\ UNCHANGED macro

\* ---------------------------------------------------- BaseMicroMSM.update
\* update with the transition matrix taken from the stored count matrix
\* (_transition_matrix without its lag argument)
MicroUpdateOutcome_StoredCount(m, b, lag, fail) ==
    IF lag = None
    THEN Outcome(m, b, "none", <<>>)
    ELSE LET m1  == [m EXCEPT !.lag = lag[1]]
             est == EstimatorName(m)
         IN IF m.labels = None \/ m.C = None
            THEN Outcome(m1, b, "missing_attr", <<>>)
            ELSE LET C  == CountMatrix(m.labels[1], lag[1], m.is_sparse)
                     m2 == [m1 EXCEPT !.C = Some(C)]
                     m3 == [m2 EXCEPT !.T = Some(TransitionMatrix(est, m.C[1]))]
                 IN Outcome(m3, b, "none", <<"count_matrix", est>>)

MicroUpdateOutcome(m, b, lag, fail) ==
    IF lag = None
    THEN Outcome(m, b, "none", <<>>)
    ELSE LET m1  == [m EXCEPT !.lag = lag[1]]
             est == EstimatorName(m)
         IN IF m.labels = None
            THEN Outcome(m1, b, "missing_attr", <<>>)
            ELSE LET C  == CountMatrix(m.labels[1], lag[1], m.is_sparse)
                     m2 == [m1 EXCEPT !.C = Some(C)]
                     m3 == [m2 EXCEPT !.T = Some(TransitionMatrix(est, C))]
                 IN IF fail = "count"
                    THEN Outcome(m1, b, "collaborator", <<"count_matrix">>)
                    ELSE IF fail = "estimator"
                    THEN Outcome(m2, b, "collaborator",
                                 <<"count_matrix", "count_matrix", est>>)
                    ELSE Outcome(m3, b, "none",
                                 <<"count_matrix", "count_matrix", est>>)

MicroUpdate(lag, other, fail) ==
    \E o \in {MicroUpdateOutcome(micro, base, lag, fail)} :
       /\ MayFail(fail, o.err)
       /\ micro' = o.m
       /\ base' = o.b
       /\ calls' = o.calls
       /\ result' = Result("micro_update",
                           [NoArgs EXCEPT !.lag = lag, !.other = other, !.fail = fail],
                           o.err, "None")
       /\ hist' = [hist EXCEPT !.failures = @ + FailCount(o.err)]
       /\ UNCHANGED macro

\* --------------------------------------------------- BaseMicroMSM.predict
\* the error raised and the value returned
MicroPredictOutcome(m, method) ==
    IF m.centroids = None THEN [err |-> "no_fit", ret |-> "None", calls |-> <<>>]
    ELSE IF Lower(method) \in {"kneighborsclassifier", "gaussiannb"}
    THEN [err |-> "none", ret |-> "labels", calls |-> <<Lower(method)>>]
    ELSE [err |-> "none", ret |-> "None", calls |-> <<>>]

\* a call that reads the model and assigns nothing
ReadOnly(op, args, o) ==
    /\ result' = Result(op, args, o.err, o.ret)
    /\ calls' = o.calls
    /\ UNCHANGED <<base, micro, macro, hist>>

MicroPredict(method) ==
    ReadOnly("micro_predict", [NoArgs EXCEPT !.method = Some(method)],
             MicroPredictOutcome(micro, method))

\* ----------------------------------------------------- BaseMicroMSM.score
\* y = None: the labels come from predict with its default method
MicroScoreOutcome(m, yGiven) ==
    LET p == MicroPredictOutcome(m, "KNeighborsClassifier")
    IN IF ~yGiven /\ p.err # "none" THEN p
       ELSE [err |-> "none", ret |-> "score",
             calls |-> (IF yGiven THEN <<>> ELSE p.calls) \o <<"Silhouette_Score">>]

MicroScore(yGiven) ==
    ReadOnly("micro_score", [NoArgs EXCEPT !.other = yGiven],
             MicroScoreOutcome(micro, yGiven))

\* ------------------------------- count_matrix / transition_matrix properties
PropertyOutcome(attr) ==
    IF attr = None THEN [err |-> "no_fit", ret |-> "None", calls |-> <<>>]
    ELSE [err |-> "none", ret |-> "matrix", calls |-> <<>>]

MicroCountMatrix == ReadOnly("micro_count_matrix", NoArgs, PropertyOutcome(micro.C))

MicroTransitionMatrix ==
    ReadOnly("micro_transition_matrix", NoArgs, PropertyOutcome(micro.T))

\* --------- metastability, stationary_distribution, eigenvalues, mfpt, ...
\* each reads self._T and hands it to numpy or analysis.spectral / timescales
SpectralQueries == {"metastability", "stationary_distribution", "eigenvalues",
                    "left_eigenvector", "right_eigenvector", "mfpt"}

SpectralOutcome(m, q) ==
    IF m.T = None THEN [err |-> "missing_attr", ret |-> "None", calls |-> <<>>]
    ELSE [err |-> "none", ret |-> "value", calls |-> <<q>>]

MicroSpectral(q) == ReadOnly("micro_" \o q, NoArgs, SpectralOutcome(micro, q))

\* ------------------------------------------------ BaseMicroMSM.timescales
\* analysis.timescales.ImpliedTimescaleClass(model).implied_timescales():
\* refits chains from the model's labels at each lag
ImpliedTimescales(m) ==
    IF m.labels = None THEN [err |-> "missing_attr", ret |-> "None", calls |-> <<>>]
    ELSE [err |-> "none", ret |-> "timescales", calls |-> <<"implied_timescales">>]

MicroTimescales == ReadOnly("micro_timescales", NoArgs, ImpliedTimescales(micro))

\* --------------------------------------------------- BaseMacroMSM.__init__
MacroInitState(b, m) ==
    [built |-> TRUE, is_force_db |-> b.is_force_db, is_reversible |-> b.is_reversible,
     is_sparse |-> FALSE, lag |-> m.lag, N |-> None, labels |-> None,
     C |-> None, T |-> None]

MacroInit ==
    /\ ~macro.built
    /\ macro' = MacroInitState(base, micro)
    /\ result' = Result("macro_init", NoArgs, "none", "None")
    /\ calls' = <<>>
    /\ UNCHANGED <<base, micro, hist>>

\* -------------------------------------------------------- BaseMacroMSM.fit
CoarseMethods == {"gmm", "hc", "hmm", "hpca", "pcca"}

\* analysis.coarse_grain.{GMM, HC, HMM, HPCA, PCCA}(self, n_macrostates):
\* needs a fitted microstate model; populates the macro model's labels;
\* pcca and hpca also produce the transition matrix
CoarseGrain(M, m, n, meth, lag, fail) ==
    IF m.labels = None \/ m.T = None
    THEN [M |-> M, err |-> "missing_attr"]
    ELSE IF fail = "coarse"
    THEN [M |-> M, err |-> "collaborator"]
    ELSE LET lab == [by |-> meth, n |-> n, cen |-> 0]
             M1  == [M EXCEPT !.labels = Some(lab)]
             T   == TransitionMatrix(meth, CountMatrix(lab, lag, M.is_sparse))
         IN [M |-> IF meth \in {"pcca", "hpca"} THEN [M1 EXCEPT !.T = Some(T)] ELSE M1,
             err |-> "none"]

\* variant: a dense model with many macrostates is refused, not warned
SparsePolicy_Refuse(M, b, n) ==
    IF n >= SparseThreshold
    THEN [M |-> [M EXCEPT !.is_sparse = b.is_sparse],
          err |-> IF b.is_sparse THEN "none" ELSE "too_few_sparse",
          calls |-> <<>>]
    ELSE IF n < MinSparseMacro /\ M.is_sparse
    THEN [M |-> M, err |-> "too_few_sparse", calls |-> <<>>]
    ELSE [M |-> M, err |-> "none", calls |-> <<>>]

\* the sparse / dense policy of lines 177-188
SparsePolicy(M, b, n) ==
    IF n >= SparseThreshold
    THEN [M |-> [M EXCEPT !.is_sparse = b.is_sparse], err |-> "none",
          calls |-> IF b.is_sparse THEN <<>> ELSE <<"warnings.warn">>]
    ELSE IF n < MinSparseMacro /\ M.is_sparse
    THEN [M |-> M, err |-> "too_few_sparse", calls |-> <<>>]
    ELSE [M |-> M, err |-> "none", calls |-> <<>>]

\* line 204: re-estimate unless the coarse grainer produced the matrix
ReEstimate(meth) == ~(meth = "pcca") \/ ~(meth = "hpca")

\* lines 203-211
MacroEstimate(M, b, meth, lag, cs, fail) ==
    LET cs1 == Append(cs, "count_matrix")
        C   == CountMatrix(M.labels[1], lag, M.is_sparse)
        M1  == [M EXCEPT !.C = Some(C)]
        est == EstimatorName(M)
        cs2 == Append(cs1, est)
        M2  == [M1 EXCEPT !.T = Some(TransitionMatrix(est, C))]
    IN IF fail = "count" THEN Outcome(M, b, "collaborator", cs1)
       ELSE IF ~ReEstimate(meth) THEN Outcome(M1, b, "none", cs1)
       ELSE IF fail = "estimator" THEN Outcome(M1, b, "collaborator", cs2)
       ELSE Outcome(M2, b, "none", cs2)

\* variant: the bound on the number of macrostates is N instead of N-1
MacroFitOutcome_OffByOne(M, b, m, n, lag, method, fail) ==
    LET M1     == [M EXCEPT !.N = Some(n)]
        b1     == [b EXCEPT !.n_macrostates = Some(n)]
        useLag == IF lag = None THEN M.lag ELSE lag[1]
        M2     == IF lag = None THEN M1 ELSE [M1 EXCEPT !.lag = lag[1]]
        pol    == SparsePolicy(M2, b1, n)
        meth   == Lower(method)
        cg     == CoarseGrain(pol.M, m, n, meth, useLag, fail)
        cs     == Append(pol.calls, meth)
    IN IF m.N = None THEN Outcome(M2, b1, "missing_attr", <<>>)
       ELSE IF n > m.N[1] THEN Outcome(M2, b1, "bounds", <<>>)
       ELSE IF pol.err # "none" THEN Outcome(pol.M, b1, pol.err, pol.calls)
       ELSE IF meth \notin CoarseMethods
       THEN Outcome(pol.M, b1, "not_implemented", pol.calls)
       ELSE IF cg.err # "none" THEN Outcome(cg.M, b1, cg.err, cs)
       ELSE MacroEstimate(cg.M, b1, meth, useLag, cs, fail)

MacroFitOutcome(M, b, m, n, lag, method, fail) ==
    LET M1     == [M EXCEPT !.N = Some(n)]
        b1     == [b EXCEPT !.n_macrostates = Some(n)]
        useLag == IF lag = None THEN M.lag ELSE lag[1]
        M2     == IF lag = None THEN M1 ELSE [M1 EXCEPT !.lag = lag[1]]
        pol    == SparsePolicy(M2, b1, n)
        meth   == Lower(method)
        cg     == CoarseGrain(pol.M, m, n, meth, useLag, fail)
        cs     == Append(pol.calls, meth)
    IN IF m.N = None THEN Outcome(M2, b1, "missing_attr", <<>>)
       ELSE IF n > m.N[1] - 1 THEN Outcome(M2, b1, "bounds", <<>>)
       ELSE IF pol.err # "none" THEN Outcome(pol.M, b1, pol.err, pol.calls)
       ELSE IF meth \notin CoarseMethods
       THEN Outcome(pol.M, b1, "not_implemented", pol.calls)
       ELSE IF cg.err # "none" THEN Outcome(cg.M, b1, cg.err, cs)
       ELSE MacroEstimate(cg.M, b1, meth, useLag, cs, fail)

\* variant: fit pushes the macro lag into the microstate model, as the
\* commented-out update of lines 288-297 would
MacroFit_WritesMicro(n, lag, method, fail) ==
    /\ macro.built
    /\ \E o \in {MacroFitOutcome(macro, base, micro, n, lag, method, fail)} :
       /\ MayFail(fail, o.err)
       /\ macro' = o.m
       /\ base' = o.b
       /\ calls' = o.calls
       /\ result' = Result("macro_fit",
                           [NoArgs EXCEPT !.N = Some(n), !.lag = lag,
                                          !.method = Some(method), !.fail = fail],
                           o.err, "None")
       /\ hist' = [hist EXCEPT !.macro_ok = @ \/ o.err = "none",
                                !.failures = @ + FailCount(o.err)]
       /\ micro' = [micro EXCEPT !.lag = o.m.lag]

MacroFit(n, lag, method, fail) ==
    /\ macro.built
    /\ \E o \in {MacroFitOutcome(macro, base, micro, n, lag, method, fail)} :
       /\ MayFail(fail, o.err)
       /\ macro' = o.m
       /\ base' = o.b
       /\ calls' = o.calls
       /\ result' = Result("macro_fit",
                           [NoArgs EXCEPT !.N = Some(n), !.lag = lag,
                                          !.method = Some(method), !.fail = fail],
                           o.err, "None")
       /\ hist' = [hist EXCEPT !.macro_ok = @ \/ o.err = "none",
                                !.failures = @ + FailCount(o.err)]
       /\ UNCHANGED micro

\* ---------------------------------------------------- BaseMacroMSM.predict
\* metastable_labels is set by the coarse grainer together with labels
MacroPredictOutcome(M, m, method) ==
    IF m.centroids = None THEN [err |-> "no_fit", ret |-> "None", calls |-> <<>>]
    ELSE IF Lower(method) \in {"kneighborsclassifier", "gaussiannb"}
    THEN IF M.labels = None
         THEN [err |-> "missing_attr", ret |-> "None", calls |-> <<>>]
         ELSE [err |-> "none", ret |-> "labels", calls |-> <<Lower(method)>>]
    ELSE [err |-> "none", ret |-> "None", calls |-> <<>>]

MacroPredict(method) ==
    /\ macro.built
    /\ ReadOnly("macro_predict", [NoArgs EXCEPT !.method = Some(method)],
                MacroPredictOutcome(macro, micro, method))

\* ------------------------------------------------------ BaseMacroMSM.score
MacroScoreOutcome(M, m) ==
    IF m.centroids = None \/ M.labels = None
    THEN [err |-> "missing_attr", ret |-> "None", calls |-> <<>>]
    ELSE [err |-> "none", ret |-> "score", calls |-> <<"Silhouette_Score">>]

MacroScore ==
    /\ macro.built
    /\ ReadOnly("macro_score", NoArgs, MacroScoreOutcome(macro, micro))

\* ---------------------------------------------- BaseMacroMSM read-only queries
MacroCountMatrix ==
    /\ macro.built
    /\ ReadOnly("macro_count_matrix", NoArgs, PropertyOutcome(macro.C))

MacroTransitionMatrix ==
    /\ macro.built
    /\ ReadOnly("macro_transition_matrix", NoArgs, PropertyOutcome(macro.T))

MacroSpectral(q) ==
    /\ macro.built
    /\ ReadOnly("macro_" \o q, NoArgs, SpectralOutcome(macro, q))

\* -------------------------------------------------- BaseMacroMSM.timescales
\* the body only defines a nested function and falls off the end
MacroTimescalesOutcome(M) == [err |-> "none", ret |-> "None", calls |-> <<>>]

MacroTimescales ==
    /\ macro.built
    /\ ReadOnly("macro_timescales", NoArgs, MacroTimescalesOutcome(macro))

\* ---------------------------------------------------------- specifications
MicroFails == {"none", "labeler", "count", "estimator"}
MacroFails == {"none", "coarse", "count", "estimator"}
UpdateFails == {"none", "count", "estimator"}
PredictMethods == {"KNeighborsClassifier", "bogus"}

\* A model constructed with the default lag of BaseModel.__init__.
InitDefaultLag == Init /\ base.lag = 1

\* The microstate model alone, fitted and updated with every combination of
\* arguments; no collaborator raises.
NextMicro ==
    \/ \E N \in Opt({SmallStates}), c \in Opt(CentroidSets), lag \in Opt(Lags),
          method \in MicroMethodArgs :
          MicroFit(N, c, lag, method, "none")
    \/ \E lag \in Opt(Lags), other \in BOOLEAN :
          MicroUpdate(lag, other, "none")

SpecMicro == Init /\ [][NextMicro]_vars

\* The same calls with collaborators that may raise.
NextMicroFail ==
    \/ \E N \in Opt({SmallStates}), c \in Opt(CentroidSets), lag \in Opt(Lags),
          method \in MicroMethodArgs, fail \in MicroFails :
          MicroFit(N, c, lag, method, fail)
    \/ \E lag \in Opt(Lags), other \in BOOLEAN, fail \in UpdateFails :
          MicroUpdate(lag, other, fail)

SpecMicroFail == InitDefaultLag /\ [][NextMicroFail]_vars

\* Both models with every read-only call; the lag changes through update
\* only, and no collaborator raises.
NextQuery ==
    \/ \E N \in Opt({SmallStates}), c \in Opt(CentroidSets),
          method \in {None, Some("bogus")} :
          MicroFit(N, c, None, method, "none")
    \/ \E lag \in Opt(Lags) : MicroUpdate(lag, FALSE, "none")
    \/ \E method \in PredictMethods : MicroPredict(method)
    \/ \E yGiven \in BOOLEAN : MicroScore(yGiven)
    \/ MicroCountMatrix
    \/ MicroTransitionMatrix
    \/ \E q \in SpectralQueries : MicroSpectral(q)
    \/ MicroTimescales
    \/ MacroInit
    \/ \E method \in {"PCCA", "bogus"} :
          MacroFit(SmallStates - 1, None, method, "none")
    \/ \E method \in PredictMethods : MacroPredict(method)
    \/ MacroScore
    \/ MacroCountMatrix
    \/ MacroTransitionMatrix
    \/ \E q \in SpectralQueries : MacroSpectral(q)
    \/ MacroTimescales

SpecQuery == InitDefaultLag /\ [][NextQuery]_vars

\* The macrostate model fitted with every state count and method over a
\* microstate model fitted by clustering; no call passes a lag and no
\* collaborator raises.
NextMacro ==
    \/ \E N \in StateCounts, method \in {None, Some("bogus")} :
          MicroFit(Some(N), None, None, method, "none")
    \/ MacroInit
    \/ \E n \in MacroCounts, method \in MacroMethodArgs :
          MacroFit(n, None, method, "none")

SpecMacro == InitDefaultLag /\ [][NextMacro]_vars

\* The same calls with collaborators that may raise.
NextMacroFail ==
    \/ \E N \in StateCounts, method \in {None, Some("bogus")} :
          MicroFit(Some(N), None, None, method, "none")
    \/ MacroInit
    \/ \E n \in MacroCounts, method \in MacroMethodArgs, fail \in MacroFails :
          MacroFit(n, None, method, fail)

SpecMacroFail == InitDefaultLag /\ [][NextMacroFail]_vars

\* Both models fitted at every lag: the microstate model by clustering with
\* the smallest state count and updated, the macrostate model by the default
\* method with a state count at and just above the bound; no collaborator
\* raises.
NextMacroLag ==
    \/ \E lag \in Opt(Lags) : MicroFit(Some(SmallStates), None, lag, None, "none")
    \/ \E lag \in Lags : MicroUpdate(Some(lag), FALSE, "none")
    \/ MacroInit
    \/ \E n \in {SmallStates - 1, SmallStates}, lag \in Opt(Lags) :
          MacroFit(n, lag, "PCCA", "none")

SpecMacroLag == InitDefaultLag /\ [][NextMacroLag]_vars

\* ------------------------------------------------------------- properties
\* Every error the two classes raise themselves is an AttributeError: the
\* missing-argument, bound, policy and method errors as well as the
\* not-fitted errors and the failed lookup of an attribute that no fit has
\* set.  "collaborator" is an exception of a numerical routine.
AttributeErrors == {"neither", "no_fit", "missing_attr", "bounds",
                    "too_few_sparse", "not_implemented"}

Estimators == {"sym_T_estimator", "rev_T_estimator", "nonrev_T_matrix"}

Invoked(names) == \E i \in DOMAIN calls : calls[i] \in names

MicroAttrs(m) == <<m.centroids, m.labels, m.N, m.lag, m.C, m.T>>
MacroAttrs(M) == <<M.N, M.lag, M.is_sparse, M.labels, M.C, M.T>>

Populated(m) ==
    /\ m.centroids # None /\ m.labels # None /\ m.N # None
    /\ m.C # None /\ m.T # None

\* C1: a MicroModel.fit call that ends in an error leaves centroids, labels,
\* n_microstates, lag, count_matrix and transition_matrix as they were before
\* the call; a call that ends without error leaves all of them populated.
C1_MicroFitAtomic ==
    [][result'.op = "micro_fit" =>
         IF result'.err # "none"
         THEN MicroAttrs(micro') = MicroAttrs(micro)
         ELSE Populated(micro')]_vars

\* C2: a MacroModel.fit call that ends in an error leaves the macro model's
\* n_macrostates, lag, sparse flag, labels, count_matrix and
\* transition_matrix, and the base object's n_macrostates, as they were
\* before the call.
C2_MacroFitAtomic ==
    [][result'.op = "macro_fit" /\ result'.err # "none" =>
         /\ MacroAttrs(macro') = MacroAttrs(macro)
         /\ base'.n_macrostates = base.n_macrostates]_vars

\* C3: while no fit call of the MicroModel has succeeded, each of predict,
\* score, stationary_distribution, eigenvalues, mfpt, metastability,
\* count_matrix and transition_matrix ends in an error instead of returning
\* a value.
C3Queries == {"micro_predict", "micro_score", "micro_stationary_distribution",
              "micro_eigenvalues", "micro_mfpt", "micro_metastability",
              "micro_count_matrix", "micro_transition_matrix"}

C3_UnfitMicroQueriesRaise ==
    (~hist.micro_ok /\ result.op \in C3Queries) => result.err \in AttributeErrors

\* C4: while no fit call of the MacroModel has succeeded every derived query
\* of the MacroModel, timescales included, ends in an error; once a fit has
\* succeeded timescales returns the implied timescales and not None.
C4Queries == {"macro_predict", "macro_score", "macro_stationary_distribution",
              "macro_eigenvalues", "macro_mfpt", "macro_metastability",
              "macro_count_matrix", "macro_transition_matrix", "macro_timescales"}

C4_MacroQueriesMirror ==
    /\ (~hist.macro_ok /\ result.op \in C4Queries) => result.err \in AttributeErrors
    /\ (hist.macro_ok /\ result.op = "macro_timescales") =>
           (result.err = "none" /\ result.ret = "timescales")

\* C5: on a model constructed with sparse = true, MacroModel.fit with
\* macro_count < 4 ends in an error, whatever macro fits came before.
C5_SparseSmallMacroRaises ==
    (result.op = "macro_fit" /\ base.is_sparse /\ result.args.N[1] < MinSparseMacro)
        => result.err \in AttributeErrors

\* C6: a MacroModel.fit with method pcca or hpca (any letter case) that runs
\* to the end has not invoked a transition matrix estimator, and
\* transition_matrix is the matrix the coarse grainer produced.
C6_CoarseMatrixKept ==
    (/\ result.op = "macro_fit"
     /\ result.err = "none"
     /\ Lower(result.args.method[1]) \in {"pcca", "hpca"})
        => (~Invoked(Estimators) /\ macro.T[1].est = Lower(result.args.method[1]))

\* C7: a fit call whose method name is none of the names of its path (the
\* clustering names with state_count, the classification names with
\* centroids, the coarse graining names for the MacroModel) ends in an error;
\* it never runs to the end on labels left by an earlier fit.
UnrecognisedMicro(args) ==
    IF args.N # None
    THEN Lower(IF args.method = None THEN "KMeans" ELSE args.method[1])
            \notin {"kmeans", "minibatchkmeans", "kmedoids"}
    ELSE /\ args.centroids # None
         /\ Lower(IF args.method = None THEN "KNeighborsClassifier" ELSE args.method[1])
               \notin {"kneighborsclassifier", "gaussiannb"}

C7_UnknownMethodRaises ==
    /\ (result.op = "micro_fit" /\ UnrecognisedMicro(result.args))
          => result.err \in AttributeErrors
    /\ (result.op = "macro_fit" /\ Lower(result.args.method[1]) \notin CoarseMethods)
          => result.err \in AttributeErrors

\* C8: MicroModel.fit with neither state_count nor centroids raises the
\* missing-argument error, invokes no labeler or estimator, and changes no
\* attribute of the model or of the base object, in an Unfit as in a Fit state.
C8_NeitherArgumentRaises ==
    [][(/\ result'.op = "micro_fit"
        /\ result'.args.N = None
        /\ result'.args.centroids = None)
          => (/\ result'.err = "neither"
              /\ calls' = <<>>
              /\ micro' = micro
              /\ base' = base)]_vars

\* a fitted model on which fit was then called with a lag and a method but
\* neither state_count nor centroids
C8_Witness ==
    /\ result.op = "micro_fit"
    /\ result.args.N = None /\ result.args.centroids = None
    /\ result.args.lag # None /\ result.args.lag # Some(micro.lag)
    /\ result.err = "neither"
    /\ hist.micro_ok

\* C9: MacroModel.fit with macro_count > n_microstates - 1 raises the bound
\* error and invokes no coarse grainer, count matrix or estimator; with
\* macro_count <= n_microstates - 1 the bound error is not raised.
C9_MacroCountBound ==
    (result.op = "macro_fit" /\ micro.N # None) =>
        IF result.args.N[1] > micro.N[1] - 1
        THEN result.err = "bounds" /\ calls = <<>>
        ELSE result.err # "bounds"

\* macro_count equal to n_microstates is rejected
C9_Witness ==
    /\ result.op = "macro_fit"
    /\ micro.N # None
    /\ result.args.N[1] = micro.N[1]
    /\ result.err = "bounds"

\* C10: a MicroModel.fit without lag builds the count matrix at the lag
\* fixed at construction; a fit with lag builds it at that lag and stores it.
C10_FitLagDefault ==
    (result.op = "micro_fit" /\ result.err = "none") =>
        IF result.args.lag = None
        THEN micro.C[1].lag = base.lag
        ELSE micro.C[1].lag = result.args.lag[1] /\ micro.lag = result.args.lag[1]

\* C11: a MacroModel.fit that runs to the end without a lag argument builds
\* its count matrix at the MicroModel's current lag, and one that is given a
\* lag different from the MicroModel's current lag does not run to the end.
C11_MacroLagFollowsMicro ==
    (result.op = "macro_fit" /\ result.err = "none") =>
        IF result.args.lag = None
        THEN macro.C[1].lag = micro.lag
        ELSE result.args.lag[1] = micro.lag

Labelers == {"kmeans", "minibatchkmeans", "kmedoids",
             "kneighborsclassifier", "gaussiannb"}

\* C12: MicroModel.update(lag=L) on a fitted model returns normally with lag
\* = L and with count_matrix and transition_matrix derived from the labels
\* the model already had at lag L; labels, centroids and n_microstates are
\* the same before and after, and no labeler is invoked.  An update without
\* the key lag changes no attribute of any object.
C12_UpdateFrame ==
    [][ result'.op = "micro_update" =>
          IF result'.args.lag = None
          THEN micro' = micro /\ base' = base /\ macro' = macro
          ELSE hist.micro_ok =>
               LET L == result'.args.lag[1]
                   C == CountMatrix(micro.labels[1], L, micro.is_sparse)
               IN /\ result'.err = "none"
                  /\ micro'.lag = L
                  /\ micro'.C = Some(C)
                  /\ \E est \in Estimators : micro'.T = Some(TransitionMatrix(est, C))
                  /\ micro'.labels = micro.labels
                  /\ micro'.centroids = micro.centroids
                  /\ micro'.N = micro.N
                  /\ base' = base
                  /\ \A i \in DOMAIN calls' : calls'[i] \notin Labelers ]_vars

\* an update to the largest lag has rebuilt both matrices of a model whose
\* fit used centroids given by the caller
C12_Witness ==
    /\ result.op = "micro_update" /\ result.err = "none"
    /\ result.args.lag = Some(MaxLag)
    /\ hist.micro_ok
    /\ micro.labels # None /\ micro.labels[1].cen > 0
    /\ micro.C # None /\ micro.C[1].lag = MaxLag
    /\ micro.T # None /\ micro.T[1].lag = MaxLag

\* the estimator the construction-time flags db and rev stand for
ChosenByFlags ==
    CASE base.is_reversible /\ base.is_force_db   -> "sym_T_estimator"
      [] base.is_reversible /\ ~base.is_force_db  -> "rev_T_estimator"
      [] ~base.is_reversible                      -> "nonrev_T_matrix"

EstimatorCalls == {i \in DOMAIN calls : calls[i] \in Estimators}

\* C13: MicroModel.fit, MicroModel.update and MacroModel.fit invoke no
\* estimator other than the one the construction-time flags select
\* (reversible and force_detailed_balance: symmetric; reversible only:
\* reversible; not reversible: non-reversible) and invoke it at most once; a
\* call that runs to the end and estimates invokes it exactly once and stores
\* its result, and every transition matrix a MicroModel holds is that
\* estimator's.
C13_EstimatorByFlags ==
    /\ result.op \in {"micro_fit", "micro_update", "macro_fit"} =>
          /\ \A i \in EstimatorCalls : calls[i] = ChosenByFlags
          /\ Cardinality(EstimatorCalls) <= 1
          /\ (result.err = "none"
                /\ ~(result.op = "micro_update" /\ result.args.lag = None)) =>
                /\ Cardinality(EstimatorCalls) = 1
                /\ result.op = "macro_fit" => macro.T = Some([macro.T[1] EXCEPT !.est = ChosenByFlags])
                /\ result.op # "macro_fit" => micro.T # None
    /\ micro.T # None => micro.T[1].est = ChosenByFlags

\* a macrostate fit of a non-reversible model constructed with
\* force_detailed_balance has used the non-reversible estimator
C13_Witness ==
    /\ result.op = "macro_fit" /\ result.err = "none"
    /\ ~base.is_reversible /\ base.is_force_db
    /\ Invoked({"nonrev_T_matrix"})
    /\ micro.T # None /\ micro.T[1].est = "nonrev_T_matrix"

\* a MacroModel.fit with at least SparseThreshold macrostates, within the
\* bound, on a model constructed dense
ManyMacroDense ==
    /\ result.op = "macro_fit"
    /\ result.args.N[1] >= SparseThreshold
    /\ micro.N # None /\ result.args.N[1] <= micro.N[1] - 1
    /\ ~base.is_sparse

\* C14: a MacroModel.fit with macro_count >= 4000 and macro_count <=
\* n_microstates - 1 on a dense model issues a warning and is not stopped by
\* the sparse/dense policy: a recognised method is dispatched, and when the
\* MicroModel has been fitted the call runs to the end and leaves a count
\* matrix and a transition matrix of macro_count states.
C14_DenseWarningOnly ==
    ManyMacroDense =>
        /\ Invoked({"warnings.warn"})
        /\ result.err \notin {"bounds", "too_few_sparse"}
        /\ Lower(result.args.method[1]) \in CoarseMethods =>
              /\ Invoked({Lower(result.args.method[1])})
              /\ hist.micro_ok =>
                    /\ result.err = "none"
                    /\ macro.C # None /\ macro.C[1].n = result.args.N[1]
                    /\ macro.T # None /\ macro.T[1].n = result.args.N[1]

\* such a fit has warned, dispatched the coarse grainer and populated both
\* matrices
C14_Witness ==
    /\ ManyMacroDense
    /\ result.err = "none"
    /\ Invoked({"warnings.warn"}) /\ Invoked(CoarseMethods)
    /\ macro.C # None /\ macro.C[1].n = SparseThreshold
    /\ macro.T # None /\ macro.T[1].n = SparseThreshold

\* C15: whenever a MicroModel or a MacroModel holds a count matrix and a
\* transition matrix, both were computed at the value its lag attribute has
\* now.
C15_LagConsistent ==
    /\ (micro.C # None /\ micro.T # None) =>
          (micro.C[1].lag = micro.lag /\ micro.T[1].lag = micro.lag)
    /\ (macro.built /\ macro.C # None /\ macro.T # None) =>
          (macro.C[1].lag = macro.lag /\ macro.T[1].lag = macro.lag)

\* C16: whenever the MacroModel has a recorded n_macrostates and the
\* MicroModel a recorded n_microstates, n_macrostates <= n_microstates - 1.
C16_MacroCountInvariant ==
    (macro.built /\ macro.N # None /\ micro.N # None) =>
        (macro.N[1] <= micro.N[1] - 1 /\ base.n_macrostates[1] <= base.n_microstates[1] - 1)

\* C17: in every state in which a MicroModel.fit has completed, centroids and
\* labels come from one labeling call with n_microstates states (clustering
\* yields both; classification labels against the stored centroids), and the
\* count matrix is built from those labels, so it is n_microstates x
\* n_microstates.
C17_LabelingCoherent ==
    hist.micro_ok =>
        /\ micro.centroids # None /\ micro.labels # None
        /\ micro.N # None /\ micro.C # None
        /\ micro.centroids[1].n = micro.N[1]
        /\ micro.labels[1].n = micro.N[1]
        /\ micro.labels[1].cen = micro.centroids[1].id
        /\ (micro.centroids[1].by # "caller" =>
               micro.labels[1].by = micro.centroids[1].by)
        /\ micro.C[1].n = micro.N[1]
        /\ micro.C[1].by = micro.labels[1].by
        /\ micro.C[1].cen = micro.labels[1].cen

\* C18: in every state the flags reversible, force_detailed_balance and
\* sparse of the MicroModel, and of the MacroModel once constructed, equal
\* the values the wrapped model was constructed with.
C18_FlagsFixed ==
    /\ micro.is_reversible = base.is_reversible
    /\ micro.is_force_db = base.is_force_db
    /\ micro.is_sparse = base.is_sparse
    /\ macro.built =>
          /\ macro.is_reversible = base.is_reversible
          /\ macro.is_force_db = base.is_force_db
          /\ macro.is_sparse = base.is_sparse

\* C19: a MacroModel.fit on a MicroModel none of whose fit calls has
\* completed (never fitted, or fitted only by calls that did not label the
\* data) ends in an error and invokes no coarse-graining method.
C19_MacroNeedsFittedMicro ==
    (result.op = "macro_fit" /\ ~hist.micro_ok) =>
        (result.err \in AttributeErrors /\ ~Invoked(CoarseMethods))

MacroOps ==
    {"macro_init", "macro_fit", "macro_predict", "macro_score",
     "macro_count_matrix", "macro_transition_matrix", "macro_timescales"}
    \cup {"macro_" \o q : q \in SpectralQueries}

\* C20: no operation of the MacroModel changes any attribute of the
\* MicroModel, and no operation on either model, whether it ends in an error
\* or not, removes a count matrix or a transition matrix that the model
\* holds.
C20_MicroUntouched ==
    [][ /\ result'.op \in MacroOps => micro' = micro
        /\ micro.C # None => micro'.C # None
        /\ micro.T # None => micro'.T # None
        /\ macro.C # None => macro'.C # None
        /\ macro.T # None => macro'.T # None ]_vars

\* a macrostate fit has completed over a fitted microstate model whose lag
\* was changed by update after the MacroModel was constructed
C20_Witness ==
    /\ result.op = "macro_fit" /\ result.err = "none"
    /\ micro.C # None /\ micro.T # None
    /\ macro.C # None /\ macro.T # None
    /\ micro.lag # macro.lag
====
